---------------------------- MODULE Spec2Model ----------------------------
(***************************************************************************)
(* Hillis-Steele prefix sum over cooperating processes.                    *)
(*                                                                         *)
(* my-count.cpp   : persistent workers, one per ordinal, synchronised by a *)
(*                  shared counter ("count" engine).                       *)
(* prefixSum.cpp  : one child per ordinal forked afresh in every round and *)
(*                  joined by the parent ("prefix" engine).                *)
(*                                                                         *)
(* Shared memory accesses are the atomic steps: every read or write of a   *)
(* shared cell by a process is one step of that process, as produced by    *)
(* the documented build (g++ without optimisation, prefixSum.cpp:3).       *)
(***************************************************************************)
EXTENDS Integers, Sequences, FiniteSets, TLC

(* ----------------------------- bounds --------------------------------- *)
MaxN == 4
MaxM == 5
MaxForkFail == 1
MaxPartN == 12

VARIABLES
    mode,          \* which program(s) this behaviour runs
    arrSize,       \* argv[1]
    reqProcesses,  \* argv[2]
    file,          \* the values of the input file, in order
    (* ---- my-count.cpp, parent ---- *)
    pc, exitCode, numProcesses,
    seg,           \* kernel state of memID1..memID3
    att,           \* shmat succeeded and not yet detached (parent view)
    mem,           \* contents of the two array segments
    turn,          \* contents of the barrier segment
    inArray, outArray,      \* the parent's two array handles
    iterations, blockSize, forkJ,
    forkFailed,    \* ordinals whose fork() returned -1
    allocFailed,   \* some shmget/shmat of this run failed
    outFile,       \* what was written to the output file (empty before)
    (* ---- my-count.cpp, children ---- *)
    wpc, wi, wk, wIn, wOut, wreg,
    wWrote,        \* wWrote[i]: the segments stored to by parallelScan in round i
    (* ---- prefixSum.cpp ---- *)
    aPc,           \* position of the parent
    aSeg,          \* kernel state of the one segment (key 65)
    aMem,          \* the ints of the mapping, by offset from memPtr
    aSum, aBuf,    \* offsets of the handles sumArr and Buffer from memPtr
    aIter, aI, aJ, \* iterations, and the loop variables i and j
    aChild,        \* state of the child forked for <<i, j>>
    aFails,        \* number of fork() calls that returned -1
    aOut,          \* the printed result (empty before)
    (* ---- the index ranges of parallelScan, worker by worker ---- *)
    qPc, qJ,
    qBlock         \* qBlock[j + 1]: the indices worker j passes the tests with

vars == <<mode, arrSize, reqProcesses, file, pc, exitCode, numProcesses, seg, att,
          mem, turn, inArray, outArray, iterations, blockSize, forkJ,
          forkFailed, allocFailed, outFile, wpc, wi, wk, wIn, wOut, wreg,
          wWrote, aPc, aSeg, aMem, aSum, aBuf, aIter, aI, aJ, aChild, aFails, aOut,
          qPc, qJ, qBlock>>

inputVars == <<mode, arrSize, reqProcesses, file>>
workerVars == <<wpc, wi, wk, wIn, wOut, wreg, wWrote>>
parentVars == <<pc, exitCode, numProcesses, seg, att, inArray, outArray,
                iterations, blockSize, forkJ, forkFailed, allocFailed, outFile>>
countVars == <<parentVars, workerVars, mem, turn>>
prefixVars == <<aPc, aSeg, aMem, aSum, aBuf, aIter, aI, aJ, aChild, aFails, aOut>>
partVars == <<qPc, qJ, qBlock>>

Ordinals == 0 .. (MaxN - 1)
Segs == 1 .. 3

(* ------------------------- pure helpers ------------------------------- *)
Min(a, b) == IF a < b THEN a ELSE b

RECURSIVE Pow2(_)
Pow2(i) == IF i <= 0 THEN 1 ELSE 2 * Pow2(i - 1)

\* floor(log2f(n)) for n >= 1 (log2f is exact enough for the sizes tried)
RECURSIVE FloorLog2(_)
FloorLog2(n) == IF n < 2 THEN 0 ELSE 1 + FloorLog2(n \div 2)

\* round((float)n / (float)m): halves round away from zero (n, m > 0)
RoundDiv(n, m) == (2 * n + m) \div (2 * m)

ClampNone(m, n) == m

\* numProcesses after the clamp of my-count.cpp:218
Clamp(m, n) == IF m > n THEN n ELSE m

BlockStartEarly(j, bs) == IF j = 0 THEN 0 ELSE j * bs - 1

BlockStart(j, bs) == j * bs

BlockEndNoFix(j, procs, bs, n) == BlockStart(j, bs) + bs

BlockEnd(j, procs, bs, n) ==
    IF j = procs - 1 THEN n ELSE BlockStart(j, bs) + bs

\* the value parallelScan stores into nextArray[k]
ScanValue(cur, k, iter) ==
    IF k < Pow2(iter) THEN cur[k] ELSE cur[k] + cur[k - Pow2(iter)]

\* what the caller's two handles are after swapArrays(a, b) returns:
\* the parameters are copies, the caller's handles are untouched
SwapArrays(a, b) == <<a, b>>

ZeroArray(n) == [k \in 0 .. (n - 1) |-> 0]

Ones(n) == [k \in 1 .. n |-> 1]
Ramp(n) == [k \in 1 .. n |-> k]
Signed(n) == [k \in 1 .. n |-> IF k % 2 = 1 THEN 3 ELSE 0 - k]

\* the input files tried: up to n values, all ones, increasing, or of
\* both signs
InputFiles(n) == UNION {{Ones(l), Ramp(l), Signed(l)} : l \in 0 .. n}

(* prefixSum.cpp: the layout of the one mapping *)
SizeofInt == 4
\* ints per page: shmat maps whole pages, so the ints behind the segment's
\* 2*N up to the page end are mapped (and zero) although not allocated
PageInts == 1024
SegmentInts(n) == n * 2
MappedInts(n) == PageInts * ((SegmentInts(n) + PageInts - 1) \div PageInts)
\* int *Buffer = memPtr + sizeof(int)*arrSize, in ints from memPtr
BufferOffset(n) == SizeofInt * n
MemTop == BufferOffset(MaxN) + MaxM - 1
PRounds == 0 .. FloorLog2(MaxM)
POrdinals == 0 .. (MaxM - 1)
NoChild == [st |-> "none", sum |-> 0, buf |-> 0]

(* ------------------------------ Init ---------------------------------- *)
InitRun ==
    /\ mode \in {"count", "prefix", "both"}
    /\ arrSize \in 1 .. MaxN
    /\ reqProcesses \in 1 .. MaxM
    /\ file \in (IF mode = "count" THEN InputFiles(arrSize)
                 ELSE IF mode = "both" THEN {Ones(arrSize)} ELSE {<<>>})

InitPartition ==
    /\ mode = "partition"
    /\ arrSize \in 1 .. MaxPartN
    /\ reqProcesses \in 1 .. (MaxPartN + 1)
    /\ file = <<>>

InitState ==
    /\ qPc = "plan"
    /\ qJ = 0
    /\ qBlock = <<>>
    /\ aPc = "start"
    /\ aSeg = "none"
    /\ aMem = [o \in 0 .. MemTop |-> 0]
    /\ aSum = 0
    /\ aBuf = 0
    /\ aIter = 0
    /\ aI = 0
    /\ aJ = 0
    /\ aChild = [c \in PRounds \X POrdinals |-> NoChild]
    /\ aFails = 0
    /\ aOut = <<>>
    /\ pc = "clamp"
    /\ exitCode = -1
    /\ numProcesses = reqProcesses
    /\ seg = [s \in Segs |-> "none"]
    /\ att = [s \in Segs |-> FALSE]
    /\ mem = [s \in 1 .. 2 |-> ZeroArray(arrSize)]
    /\ turn = 0
    /\ inArray = 1
    /\ outArray = 2
    /\ iterations = 0
    /\ blockSize = 0
    /\ forkJ = 0
    /\ forkFailed = {}
    /\ allocFailed = FALSE
    /\ outFile = <<>>
    /\ wpc = [j \in Ordinals |-> "none"]
    /\ wi = [j \in Ordinals |-> 0]
    /\ wk = [j \in Ordinals |-> 0]
    /\ wIn = [j \in Ordinals |-> 1]
    /\ wOut = [j \in Ordinals |-> 2]
    /\ wreg = [j \in Ordinals |-> 0]
    /\ wWrote = [i \in 0 .. FloorLog2(MaxN) |-> {}]

Init == InitRun /\ InitState
InitPart == InitPartition /\ InitState

CountOn == mode \in {"count", "both"}

(* ----------------------- my-count.cpp: parent ------------------------- *)
ClampProcesses ==
    /\ CountOn /\ pc = "clamp"
    /\ numProcesses' = Clamp(reqProcesses, arrSize)
    /\ pc' = "shmget"
    /\ UNCHANGED <<inputVars, prefixVars, partVars, exitCode, seg, att, mem, turn, inArray, outArray,
                   iterations, blockSize, forkJ, forkFailed, allocFailed, outFile,
                   workerVars>>

\* three shmget calls, then one test of the three ids; errmsg exits with 1
CreateSegments ==
    /\ CountOn /\ pc = "shmget"
    /\ \E ok \in [Segs -> BOOLEAN] :
        /\ seg' = [s \in Segs |-> IF ok[s] THEN "live" ELSE "none"]
        /\ IF \E s \in Segs : ~ok[s]
           THEN pc' = "exited" /\ exitCode' = 1 /\ allocFailed' = TRUE
           ELSE pc' = "shmat" /\ UNCHANGED <<exitCode, allocFailed>>
    /\ UNCHANGED <<inputVars, prefixVars, partVars, numProcesses, att, mem, turn, inArray, outArray,
                   iterations, blockSize, forkJ, forkFailed, outFile, workerVars>>

\* three shmat calls, results unchecked, then *barrier = 0
AttachSegments ==
    /\ CountOn /\ pc = "shmat"
    /\ \E ok \in [Segs -> BOOLEAN] :
        /\ att' = ok
        /\ allocFailed' = (\E s \in Segs : ~ok[s])
        /\ IF ok[3]
           THEN pc' = "read" /\ turn' = 0
           ELSE pc' = "crashed" /\ UNCHANGED turn
    /\ UNCHANGED <<inputVars, prefixVars, partVars, exitCode, numProcesses, seg, mem, inArray, outArray,
                   iterations, blockSize, forkJ, forkFailed, outFile, workerVars>>

NotRemoved == seg

\* removeMemory: detach the three pointers, mark the three ids for removal
Removed == [s \in Segs |-> IF seg[s] = "live" THEN "removed" ELSE seg[s]]
Detached == [s \in Segs |-> FALSE]

\* makeInputArray, the count test, and the two computations before the loop
ReadInput ==
    /\ CountOn /\ pc = "read"
    /\ \E opened \in BOOLEAN :
        LET count == IF opened THEN Min(Len(file), arrSize) ELSE -1 IN
        IF opened /\ count >= 1 /\ ~att[inArray]
        THEN /\ pc' = "crashed"
             /\ UNCHANGED <<exitCode, seg, att, mem, iterations, blockSize>>
        ELSE IF count < 0 \/ count < arrSize - 1
        THEN /\ seg' = Removed /\ att' = Detached
             /\ pc' = "exited" /\ exitCode' = 1
             /\ mem' = IF count >= 1
                       THEN [mem EXCEPT ![inArray] =
                               [k \in 0 .. (arrSize - 1) |->
                                   IF k < count THEN file[k + 1] ELSE @[k]]]
                       ELSE mem
             /\ UNCHANGED <<iterations, blockSize>>
        ELSE /\ mem' = [mem EXCEPT ![inArray] =
                           [k \in 0 .. (arrSize - 1) |->
                               IF k < count THEN file[k + 1] ELSE @[k]]]
             /\ iterations' = FloorLog2(arrSize)
             /\ blockSize' = RoundDiv(arrSize, numProcesses)
             /\ pc' = "fork"
             /\ UNCHANGED <<exitCode, seg, att>>
    /\ UNCHANGED <<inputVars, prefixVars, partVars, numProcesses, turn, inArray, outArray, forkJ,
                   forkFailed, allocFailed, outFile, workerVars>>

\* the test of the loop of parallelScan, with the break folded in
InLoop(j, k) == k < BlockEnd(j, numProcesses, blockSize, arrSize) /\ ~(k >= arrSize)

\* where a child stands after the prologue of parallelScan: in the loop, or,
\* its range being empty, at the first spin of synchronize
EnterScan(j) == IF InLoop(j, BlockStart(j, blockSize)) THEN "scan" ELSE "wait1"

\* one pass of the fork loop: fork() returns 0 in a new child, or -1
Fork ==
    /\ CountOn /\ pc = "fork" /\ forkJ < numProcesses
    /\ \E ok \in BOOLEAN :
        /\ ok \/ Cardinality(forkFailed) < MaxForkFail
        /\ IF ok
           THEN /\ wpc' = [wpc EXCEPT ![forkJ] = EnterScan(forkJ)]
                /\ wi' = [wi EXCEPT ![forkJ] = 0]
                /\ wk' = [wk EXCEPT ![forkJ] = BlockStart(forkJ, blockSize)]
                /\ wIn' = [wIn EXCEPT ![forkJ] = inArray]
                /\ wOut' = [wOut EXCEPT ![forkJ] = outArray]
                /\ UNCHANGED forkFailed
           ELSE /\ forkFailed' = forkFailed \cup {forkJ}
                /\ UNCHANGED <<wpc, wi, wk, wIn, wOut>>
    /\ forkJ' = forkJ + 1
    /\ UNCHANGED <<inputVars, prefixVars, partVars, pc, exitCode, numProcesses, seg, att, mem, turn,
                   inArray, outArray, iterations, blockSize, allocFailed, outFile,
                   wreg, wWrote>>

Terminated(j) == wpc[j] \in {"none", "done", "crashed"}

OneChildReaped ==
    \/ \A j \in Ordinals : wpc[j] = "none"
    \/ \E j \in Ordinals : wpc[j] \in {"done", "crashed"}

JoinSkipped == TRUE

\* the wait loop has returned -1: no child of the parent is left
NoChildLeft == \A j \in Ordinals : Terminated(j)

\* while(wait(&status) > 0);
WaitChildren ==
    /\ CountOn /\ pc = "fork" /\ forkJ = numProcesses
    /\ NoChildLeft
    /\ pc' = "swap"
    /\ UNCHANGED <<inputVars, prefixVars, partVars, exitCode, numProcesses, seg, att, mem, turn, inArray,
                   outArray, iterations, blockSize, forkJ, forkFailed, allocFailed,
                   outFile, workerVars>>

FinalSwap ==
    /\ CountOn /\ pc = "swap"
    /\ IF iterations % 2 # 0
       THEN /\ inArray' = SwapArrays(inArray, outArray)[1]
            /\ outArray' = SwapArrays(inArray, outArray)[2]
       ELSE UNCHANGED <<inArray, outArray>>
    /\ pc' = "write"
    /\ UNCHANGED <<inputVars, prefixVars, partVars, exitCode, numProcesses, seg, att, mem, turn,
                   iterations, blockSize, forkJ, forkFailed, allocFailed, outFile,
                   workerVars>>

\* writeOutputArray and, when it cannot open the file, the failure exit
WriteOutput ==
    /\ CountOn /\ pc = "write"
    /\ \E opened \in BOOLEAN :
        IF ~opened
        THEN /\ seg' = Removed /\ att' = Detached
             /\ pc' = "exited" /\ exitCode' = 1
             /\ UNCHANGED outFile
        ELSE IF ~att[outArray]
        THEN /\ pc' = "crashed"
             /\ UNCHANGED <<exitCode, seg, att, outFile>>
        ELSE /\ outFile' = [k \in 1 .. arrSize |-> mem[outArray][k - 1]]
             /\ pc' = "remove"
             /\ UNCHANGED <<exitCode, seg, att>>
    /\ UNCHANGED <<inputVars, prefixVars, partVars, numProcesses, mem, turn, inArray, outArray,
                   iterations, blockSize, forkJ, forkFailed, allocFailed,
                   workerVars>>

RemoveAndReturn ==
    /\ CountOn /\ pc = "remove"
    /\ seg' = Removed /\ att' = Detached
    /\ pc' = "exited" /\ exitCode' = 0
    /\ UNCHANGED <<inputVars, prefixVars, partVars, numProcesses, mem, turn, inArray, outArray,
                   iterations, blockSize, forkJ, forkFailed, allocFailed, outFile,
                   workerVars>>

(* ---------------------- my-count.cpp: children ------------------------ *)
\* one pass of the loop of parallelScan, up to the next loop test; a child
\* has the attachments the parent had at the fork, and the parent detaches
\* only with no child running
ScanStep(j) ==
    /\ wpc[j] = "scan"
    /\ InLoop(j, wk[j])
    /\ IF ~att[wIn[j]] \/ ~att[wOut[j]]
       THEN /\ wpc' = [wpc EXCEPT ![j] = "crashed"]
            /\ UNCHANGED <<mem, wk, wWrote>>
       ELSE /\ mem' = [mem EXCEPT ![wOut[j]][wk[j]] =
                          ScanValue(mem[wIn[j]], wk[j], wi[j])]
            /\ wWrote' = [wWrote EXCEPT ![wi[j]] = @ \cup {wOut[j]}]
            /\ wk' = [wk EXCEPT ![j] = wk[j] + 1]
            /\ wpc' = [wpc EXCEPT ![j] =
                          IF InLoop(j, wk[j] + 1) THEN "scan" ELSE "wait1"]
    /\ UNCHANGED <<inputVars, prefixVars, partVars, parentVars, turn, wi, wIn, wOut, wreg>>

AnyTurn(t, j, iter, procs) == TRUE

\* the test that ends the first spin of synchronize
MyTurn(t, j, iter, procs) == t = iter * procs + j

\* first spin of synchronize falls through
WaitTurn(j) ==
    /\ wpc[j] = "wait1"
    /\ MyTurn(turn, j, wi[j], numProcesses)
    /\ wpc' = [wpc EXCEPT ![j] = "load"]
    /\ UNCHANGED <<inputVars, prefixVars, partVars, parentVars, mem, turn, wi, wk, wIn, wOut,
                   wreg, wWrote>>

\* turn[0]++ : the load
IncrLoad(j) ==
    /\ wpc[j] = "load"
    /\ wreg' = [wreg EXCEPT ![j] = turn]
    /\ wpc' = [wpc EXCEPT ![j] = "store"]
    /\ UNCHANGED <<inputVars, prefixVars, partVars, parentVars, mem, turn, wi, wk, wIn, wOut,
                   wWrote>>

\* turn[0]++ : the store
IncrStore(j) ==
    /\ wpc[j] = "store"
    /\ turn' = wreg[j] + 1
    /\ wpc' = [wpc EXCEPT ![j] = "wait2"]
    /\ UNCHANGED <<inputVars, prefixVars, partVars, parentVars, mem, wi, wk, wIn, wOut, wreg,
                   wWrote>>

StillWaitingOwn(t, iter, procs) == t < iter * procs + 1

StillWaitingBeyond(t, iter, procs) == t <= (iter + 1) * procs

\* the test of the second spin of synchronize
StillWaitingAll(t, iter, procs) == t < (iter + 1) * procs

\* the second spin of synchronize falls through; then, in main, swapArrays,
\* i++ and the loop test: the next parallelScan, or exit(0)
WaitAll(j) ==
    /\ wpc[j] = "wait2"
    /\ ~StillWaitingAll(turn, wi[j], numProcesses)
    /\ wIn' = [wIn EXCEPT ![j] = SwapArrays(wIn[j], wOut[j])[1]]
    /\ wOut' = [wOut EXCEPT ![j] = SwapArrays(wIn[j], wOut[j])[2]]
    /\ wi' = [wi EXCEPT ![j] = wi[j] + 1]
    /\ IF wi[j] + 1 <= iterations
       THEN /\ wpc' = [wpc EXCEPT ![j] = EnterScan(j)]
            /\ wk' = [wk EXCEPT ![j] = BlockStart(j, blockSize)]
       ELSE /\ wpc' = [wpc EXCEPT ![j] = "done"]
            /\ UNCHANGED wk
    /\ UNCHANGED <<inputVars, prefixVars, partVars, parentVars, mem, turn, wreg, wWrote>>

Worker(j) ==
    \/ ScanStep(j) \/ WaitTurn(j) \/ IncrLoad(j) \/ IncrStore(j) \/ WaitAll(j)

(* --------------------------- prefixSum.cpp ---------------------------- *)
\* prefixSum runs alone, or after my-count has returned 0 on the same N, M
PrefixOn == mode = "prefix" \/ (mode = "both" /\ pc = "exited" /\ exitCode = 0)

\* shmget and shmat, results unchecked; then the fill loop and iterations
PrefixAlloc ==
    /\ PrefixOn /\ aPc = "start"
    /\ \E got \in BOOLEAN, attached \in BOOLEAN :
        /\ aSeg' = IF got THEN "live" ELSE "none"
        /\ IF got /\ attached
           THEN /\ aSum' = 0
                /\ aBuf' = BufferOffset(arrSize)
                /\ aMem' = [o \in 0 .. MemTop |-> IF o < arrSize THEN 1 ELSE aMem[o]]
                /\ aIter' = FloorLog2(reqProcesses)
                /\ aI' = 0 /\ aJ' = 0
                /\ aPc' = "loop"
           ELSE /\ aPc' = "crashed"
                /\ UNCHANGED <<aSum, aBuf, aMem, aIter, aI, aJ>>
    /\ UNCHANGED <<inputVars, countVars, partVars, aChild, aFails, aOut>>

\* one pass of the inner loop: fork() returns 0 in a new child, or -1
\* (failing forks are explored in the runs of prefixSum alone)
PrefixFork ==
    /\ PrefixOn /\ aPc = "loop" /\ aI <= aIter /\ aJ < reqProcesses
    /\ \E ok \in BOOLEAN :
        /\ ok \/ (mode = "prefix" /\ aFails < MaxForkFail)
        /\ IF ok
           THEN /\ aChild' = [aChild EXCEPT ![<<aI, aJ>>] =
                                 [st |-> "running", sum |-> aSum, buf |-> aBuf]]
                /\ UNCHANGED aFails
           ELSE /\ aFails' = aFails + 1
                /\ UNCHANGED aChild
    /\ aJ' = aJ + 1
    /\ UNCHANGED <<inputVars, countVars, partVars, aPc, aSeg, aMem, aSum, aBuf, aIter, aI, aOut>>

\* the offsets child <<i, j>> reads and the one it writes
ChildReads(i, j) ==
    {aChild[<<i, j>>].sum + j} \cup
        (IF j < Pow2(i) THEN {} ELSE {aChild[<<i, j>>].sum + j - Pow2(i)})
ChildWrites(i, j) == aChild[<<i, j>>].buf + j

\* the body of a child: one cell of Buffer, then exit(0)
PrefixChild(i, j) ==
    /\ aChild[<<i, j>>].st = "running"
    /\ LET c == aChild[<<i, j>>]
           cur == [k \in 0 .. (MemTop - c.sum) |-> aMem[c.sum + k]]
       IN IF \E o \in ChildReads(i, j) \cup {ChildWrites(i, j)} : o >= MappedInts(arrSize)
          THEN /\ aChild' = [aChild EXCEPT ![<<i, j>>].st = "crashed"]
               /\ UNCHANGED aMem
          ELSE /\ aMem' = [aMem EXCEPT ![ChildWrites(i, j)] = ScanValue(cur, j, i)]
               /\ aChild' = [aChild EXCEPT ![<<i, j>>].st = "exited"]
    /\ UNCHANGED <<inputVars, countVars, partVars, aPc, aSeg, aSum, aBuf, aIter, aI, aJ, aFails, aOut>>

ChildrenGone == \A c \in PRounds \X POrdinals : aChild[c].st # "running"

\* while(wait(&status) > 0); then the swap of the two handles, then i++
PrefixJoin ==
    /\ PrefixOn /\ aPc = "loop" /\ aI <= aIter /\ aJ = reqProcesses
    /\ ChildrenGone
    /\ aSum' = aBuf /\ aBuf' = aSum
    /\ aI' = aI + 1 /\ aJ' = 0
    /\ UNCHANGED <<inputVars, countVars, partVars, aPc, aSeg, aMem, aIter, aChild, aFails, aOut>>

\* the print loop over sumArr
PrefixPrint ==
    /\ PrefixOn /\ aPc = "loop" /\ aI > aIter
    /\ IF aSum + arrSize - 1 >= MappedInts(arrSize)
       THEN aPc' = "crashed" /\ UNCHANGED aOut
       ELSE /\ aOut' = [k \in 1 .. arrSize |-> aMem[aSum + k - 1]]
            /\ aPc' = "remove"
    /\ UNCHANGED <<inputVars, countVars, partVars, aSeg, aMem, aSum, aBuf, aIter, aI, aJ, aChild, aFails>>

\* shmdt twice, shmctl(IPC_RMID), return 0
PrefixRemove ==
    /\ PrefixOn /\ aPc = "remove"
    /\ aSeg' = "removed"
    /\ aPc' = "exited"
    /\ UNCHANGED <<inputVars, countVars, partVars, aMem, aSum, aBuf, aIter, aI, aJ, aChild, aFails, aOut>>

(* ------------- parallelScan: the index range of each worker ----------- *)
\* the clamp of main and its blockSize
PartitionPlan ==
    /\ mode = "partition" /\ qPc = "plan"
    /\ numProcesses' = Clamp(reqProcesses, arrSize)
    /\ blockSize' = RoundDiv(arrSize, Clamp(reqProcesses, arrSize))
    /\ qPc' = "scan"
    /\ UNCHANGED <<inputVars, prefixVars, workerVars, mem, turn, pc, exitCode, seg,
                   att, inArray, outArray, iterations, forkJ, forkFailed,
                   allocFailed, outFile, qJ, qBlock>>

\* the indices k for which worker j reaches the body of the loop
Processed(j, procs, bs, n) ==
    {k \in BlockStart(j, bs) .. (BlockEnd(j, procs, bs, n) - 1) : ~(k >= n)}

\* the loop of parallelScan for the next ordinal
PartitionWorker ==
    /\ mode = "partition" /\ qPc = "scan" /\ qJ < numProcesses
    /\ qBlock' = Append(qBlock, Processed(qJ, numProcesses, blockSize, arrSize))
    /\ qJ' = qJ + 1
    /\ UNCHANGED <<inputVars, prefixVars, countVars, qPc>>

NextPart == PartitionPlan \/ PartitionWorker

SpecPart == InitPart /\ [][NextPart]_vars

Next ==
    \/ PrefixAlloc \/ PrefixFork \/ PrefixJoin \/ PrefixPrint \/ PrefixRemove
    \/ \E c \in PRounds \X POrdinals : PrefixChild(c[1], c[2])
    \/ ClampProcesses \/ CreateSegments \/ AttachSegments \/ ReadInput
    \/ Fork \/ WaitChildren \/ FinalSwap \/ WriteOutput \/ RemoveAndReturn
    \/ \E j \in Ordinals : Worker(j)

Spec == Init /\ [][Next]_vars

(* ------------- my-count alone, every process being scheduled ---------- *)
InitCount == InitRun /\ mode = "count" /\ InitState

\* the steps of the parent process of my-count
ParentStep ==
    \/ ClampProcesses \/ CreateSegments \/ AttachSegments \/ ReadInput
    \/ Fork \/ WaitChildren \/ FinalSwap \/ WriteOutput \/ RemoveAndReturn

NextCount == ParentStep \/ \E j \in Ordinals : Worker(j)

\* the scheduler runs every process that can take a step: the parent, and
\* each worker (a spinning worker re-reads the counter on every pass, so
\* it sees a value that stays)
Fairness == WF_vars(ParentStep) /\ \A j \in Ordinals : WF_vars(Worker(j))

SpecLive == InitCount /\ [][NextCount]_vars /\ Fairness

(* ======================= properties of the runs ======================= *)
\* the array makeInputArray leaves in the first segment
InputArray == [k \in 0 .. (arrSize - 1) |-> IF k < Len(file) THEN file[k + 1] ELSE 0]

RECURSIVE SumTo(_, _)
SumTo(a, k) == IF k < 0 THEN 0 ELSE a[k] + SumTo(a, k - 1)

\* my-count has written the output file in a run in which every shmget,
\* shmat and fork succeeded
CountWroteCleanly ==
    /\ mode = "count"
    /\ outFile # <<>>
    /\ forkFailed = {} /\ ~allocFailed

\* the run of my-count's main with one worker and no interleaving: the
\* child's rounds over its own two handles, then the parent's final swap
RECURSIVE OneWorkerRounds(_, _, _, _)
OneWorkerRounds(m, hin, hout, i) ==
    IF i > FloorLog2(arrSize) THEN m
    ELSE OneWorkerRounds(
            [m EXCEPT ![hout] = [k \in 0 .. (arrSize - 1) |-> ScanValue(m[hin], k, i)]],
            SwapArrays(hin, hout)[1], SwapArrays(hin, hout)[2], i + 1)

OneWorkerOutput ==
    LET m == OneWorkerRounds([s \in 1 .. 2 |-> IF s = 1 THEN InputArray
                                               ELSE ZeroArray(arrSize)], 1, 2, 0)
        h == IF FloorLog2(arrSize) % 2 # 0 THEN SwapArrays(1, 2) ELSE <<1, 2>>
    IN [k \in 1 .. arrSize |-> m[h[2]][k - 1]]

\* C1: for every N >= 1, M in [1, N] and input of length N, the array the
\* parent writes out is the inclusive prefix sum of the input:
\* result[k] = input[0] + ... + input[k], under every interleaving.
C1_OutputIsPrefixSum ==
    (CountWroteCleanly /\ Len(file) = arrSize /\ reqProcesses <= arrSize)
        => \A k \in 0 .. (arrSize - 1) : outFile[k + 1] = SumTo(InputArray, k)

\* C2: for a fixed input the written output does not depend on the
\* requested worker count M (M = 1, 2, N, or M > N clamped to N): it is the
\* output of the one-worker run on that input, under every interleaving.
C2_OutputIndependentOfM ==
    CountWroteCleanly => outFile = OneWorkerOutput

C2_Witness ==
    /\ CountWroteCleanly
    /\ arrSize = 4 /\ numProcesses = 3 /\ reqProcesses = 3
    /\ outFile = OneWorkerOutput

\* worker j has left the loop of parallelScan of round r
FinishedScan(j, r) ==
    \/ wi[j] > r
    \/ wi[j] = r /\ wpc[j] \in {"wait1", "load", "store", "wait2"}

\* C3: no worker begins the Scan Step of round i+1 before every one of the
\* M workers has finished the Scan Step of round i: in my-count by the
\* counter of synchronize, in prefixSum by the parent joining all children
\* of round i before it forks a child of round i+1.
C3_RoundsAreSeparated ==
    /\ \A j \in Ordinals :
         (wpc[j] # "none" /\ wi[j] >= 1)
            => \A j2 \in 0 .. (numProcesses - 1) : FinishedScan(j2, wi[j] - 1)
    /\ \A c \in PRounds \X POrdinals :
         (aChild[c].st # "none" /\ c[1] >= 1)
            => \A j2 \in POrdinals : aChild[<<c[1] - 1, j2>>].st # "running"

C3_Witness ==
    /\ mode = "both" /\ numProcesses >= 2
    /\ \E j \in Ordinals : wi[j] >= 2
    /\ \E j \in POrdinals : aChild[<<1, j>>].st = "running"
    /\ \E j \in POrdinals : aChild[<<0, j>>].st = "exited"

\* C4: with blockSize = round(N/M), the index sets the M workers actually
\* process in a round are pairwise disjoint and their union is [0, N).
C4_BlocksPartitionTheArray ==
    /\ \A a \in 1 .. Len(qBlock) : \A b \in 1 .. Len(qBlock) :
          a # b => qBlock[a] \cap qBlock[b] = {}
    /\ (qPc = "scan" /\ qJ = numProcesses)
          => UNION {qBlock[a] : a \in 1 .. Len(qBlock)} = 0 .. (arrSize - 1)

\* 9 indices over 6 workers: blockSize 2, worker 4 runs into the end of the
\* array and the last worker starts behind it
C4_Witness ==
    /\ mode = "partition" /\ arrSize = 9 /\ numProcesses = 6
    /\ qJ = numProcesses
    /\ qBlock[5] = {8} /\ qBlock[6] = {}
    /\ UNION {qBlock[a] : a \in 1 .. Len(qBlock)} = 0 .. 8

\* C5: the number of rounds executed, by each persistent worker of my-count
\* and by the fork loop of prefixSum, is floor(log2(N)) + 1.
C5_RoundCount ==
    /\ \A j \in Ordinals : wpc[j] = "done" => wi[j] = FloorLog2(arrSize) + 1
    /\ (aPc \in {"remove", "exited"} /\ aFails = 0) => aI = FloorLog2(arrSize) + 1

\* C6: for the same N and M and the all-ones input, prefixSum and my-count
\* produce the same result array of length N.
C6_SameResult ==
    ( /\ mode = "both"
      /\ outFile # <<>> /\ forkFailed = {} /\ ~allocFailed
      /\ aOut # <<>> /\ aFails = 0 )
        => aOut = outFile

Spawned == {j \in Ordinals : wpc[j] # "none"}

\* C7: my-count calls fork min(M, N) times, every spawned worker has an
\* ordinal in [0, min(M, N)), and the workers spawned are exactly those
\* ordinals (min(M, N) processes) less the ones whose fork returned -1.
C7_SpawnsMinOfMAndN ==
    /\ \A j \in Spawned : j < Min(reqProcesses, arrSize)
    /\ forkJ <= Min(reqProcesses, arrSize)
    /\ Spawned = (0 .. (forkJ - 1)) \ forkFailed
    /\ pc \in {"swap", "write", "remove"}
          => /\ forkJ = Min(reqProcesses, arrSize)
             /\ Cardinality(Spawned) + Cardinality(forkFailed)
                    = Min(reqProcesses, arrSize)

C7_Witness ==
    /\ reqProcesses = 5 /\ arrSize = 4 /\ pc = "swap"
    /\ forkFailed = {}
    /\ Cardinality(Spawned) = 4

WorkerRunning(j) == wpc[j] \notin {"none", "done", "crashed"}
SomeSegmentGoes == \E s \in Segs : seg[s] = "live" /\ seg'[s] = "removed"

\* C8 as stated: the segments are allocated before any worker is spawned,
\* no worker removes a segment, and the parent removes them only after
\* every spawned worker has terminated and the result has been read out.
C8_RemovedOnlyAfterResult ==
    /\ [](Spawned # {} => \A s \in Segs : seg[s] # "none")
    /\ [][seg' # seg => UNCHANGED workerVars]_vars
    /\ [][SomeSegmentGoes =>
            /\ \A j \in Ordinals : ~WorkerRunning(j)
            /\ outFile # <<>>]_vars

\* C8 amended: as above, except that on the two failure exits of the I/O
\* layer (input file invalid, output file not writable) the parent removes
\* the segments without a result having been read out; also then no
\* spawned worker is running.
C8_RemovedOnlyWhenWorkersGone ==
    /\ [](Spawned # {} => \A s \in Segs : seg[s] # "none")
    /\ [][seg' # seg => UNCHANGED workerVars]_vars
    /\ [][SomeSegmentGoes =>
            /\ \A j \in Ordinals : ~WorkerRunning(j)
            /\ outFile # <<>> \/ (pc' = "exited" /\ exitCode' = 1)]_vars

C8_Witness ==
    /\ numProcesses >= 2 /\ Cardinality(Spawned) = numProcesses
    /\ \A s \in Segs : seg[s] = "removed"
    /\ outFile # <<>> /\ exitCode = 0

\* C9: if a shmget or shmat step fails, the run aborts before any worker
\* is spawned, and no segment that was created remains allocated after it.
C9_AllocFailureLeavesNothing ==
    allocFailed =>
        /\ Spawned = {}
        /\ pc \in {"exited", "crashed"} => \A s \in Segs : seg[s] # "live"

\* C10: if the fork of some ordinal fails, the run of my-count ends in a
\* failure outcome instead of producing a result: nothing is written to the
\* output file and the parent does not return 0.
C10_SpawnFailureIsFatal ==
    (forkFailed # {} /\ ~allocFailed)
        => (outFile = <<>> /\ (pc = "exited" => exitCode # 0))

\* the parent has left through one of the two failure exits of main that
\* follow the allocation: "Invalid input file." or "Unable to open the
\* output file."
IoFailureExit ==
    /\ pc = "exited" /\ exitCode = 1
    /\ \A s \in Segs : seg[s] # "none"

\* C11: on every failure exit of the I/O layer taken after the segments
\* were allocated (input file unreadable or too short, output file not
\* writable), the three segments are detached and removed when the process
\* exits with failure.
C11_IoFailureReleasesSegments ==
    /\ [](IoFailureExit =>
            /\ \A s \in Segs : seg[s] = "removed"
            /\ \A s \in Segs : ~att[s])
    /\ [][(pc \in {"read", "write"} /\ pc' = "exited")
            => /\ exitCode' = 1
               /\ \A s \in Segs : seg'[s] = "removed" /\ ~att'[s]]_vars

\* the output file could not be opened after two workers ran to the end
C11_Witness ==
    /\ IoFailureExit
    /\ Cardinality(Spawned) >= 2 /\ \A j \in Spawned : wpc[j] = "done"
    /\ outFile = <<>>
    /\ \A s \in Segs : seg[s] = "removed"

\* the input file held too few values: two of four
C11_WitnessShortInput ==
    /\ IoFailureExit
    /\ arrSize = 4 /\ Len(file) = 2 /\ Spawned = {}
    /\ \A s \in Segs : seg[s] = "removed"

\* the segment read (written) in round i when the two handles change roles
\* after every round, round 0 reading the input segment
CurrentOfRound(i) == IF i % 2 = 0 THEN 1 ELSE 2
NextOfRound(i) == IF i % 2 = 0 THEN 2 ELSE 1

\* C12: the roles of the two buffers alternate every round: what a worker
\* reads as current in round i+1 is the buffer written as next in round i,
\* and what it writes in round i+1 is the buffer read in round i (the swap
\* after a round has taken effect for the caller); in prefixSum likewise
\* for the handles a child of round i inherits.
C12_RolesAlternate ==
    /\ (forkFailed = {} /\ ~allocFailed) =>
          \A j \in Spawned :
             wi[j] <= iterations =>
                /\ wIn[j] = CurrentOfRound(wi[j])
                /\ wOut[j] = NextOfRound(wi[j])
    /\ \A c \in PRounds \X POrdinals :
          aChild[c].st # "none" =>
             /\ aChild[c].sum = (IF c[1] % 2 = 0 THEN 0 ELSE BufferOffset(arrSize))
             /\ aChild[c].buf = (IF c[1] % 2 = 0 THEN BufferOffset(arrSize) ELSE 0)

\* every one of the M workers of my-count is in round i and has left the
\* loop of parallelScan; none has gone on to round i+1
AllFinishedScan(i) ==
    /\ pc = "fork" /\ forkJ = numProcesses
    /\ forkFailed = {} /\ ~allocFailed
    /\ \A j \in 0 .. (numProcesses - 1) :
          wi[j] = i /\ wpc[j] \in {"wait1", "load", "store", "wait2"}

\* every child of round aI of prefixSum was forked and has exited, and the
\* parent has not yet swapped the handles
PrefixRoundDone ==
    /\ aPc = "loop" /\ aI <= aIter /\ aJ = reqProcesses
    /\ aFails = 0
    /\ \A j \in 0 .. (reqProcesses - 1) : aChild[<<aI, j>>].st = "exited"

\* the N cells behind a handle of prefixSum
PrefixArray(h) == [k \in 0 .. (arrSize - 1) |-> aMem[h + k]]

\* C13, my-count: when all M workers have finished the Scan Step of round
\* i, next[k] = current[k] for k < 2^i and current[k] + current[k - 2^i]
\* otherwise, for every k in [0, N); current is not written while a worker
\* is in the round, so its content is the one of the start of the round.
C13_CountRoundResult ==
    /\ [](\A i \in 0 .. FloorLog2(MaxN) :
            AllFinishedScan(i) =>
               \A k \in 0 .. (arrSize - 1) :
                  mem[wOut[0]][k] = ScanValue(mem[wIn[0]], k, i))
    /\ [][\A j \in Ordinals :
            WorkerRunning(j) => mem'[wIn[j]] = mem[wIn[j]]]_vars

\* C13: the same in both engines; in prefixSum when every child of the
\* round has exited, for the handles sumArr (current) and Buffer (next).
C13_RoundResult ==
    /\ C13_CountRoundResult
    /\ [](PrefixRoundDone =>
            \A k \in 0 .. (arrSize - 1) :
               aMem[aBuf + k] = ScanValue(PrefixArray(aSum), k, aI))
    /\ [][(aPc = "loop" /\ aI <= aIter /\ aI' = aI)
            => PrefixArray(aSum)' = PrefixArray(aSum)]_vars

C13_CountWitness ==
    /\ AllFinishedScan(2) /\ numProcesses = 3 /\ file = Ramp(4)
    /\ mem[wOut[0]] = [k \in 0 .. 3 |-> ScanValue(mem[wIn[0]], k, 2)]

\* the number of rounds whose completion worker j has reported: the
\* increments of the counter it has performed
Reported(j) == wi[j] + (IF wpc[j] = "wait2" THEN 1 ELSE 0)

\* the rounds every one of the M workers has reported
CompletedRounds ==
    CHOOSE r \in 0 .. (FloorLog2(MaxN) + 1) :
        /\ \A j \in 0 .. (numProcesses - 1) : Reported(j) >= r
        /\ \E j \in 0 .. (numProcesses - 1) : Reported(j) = r

\* the workers that have reported the round after those
ReportedCurrent ==
    Cardinality({j \in 0 .. (numProcesses - 1) : Reported(j) > CompletedRounds})

\* C14: the barrier counter equals (completed rounds) * M + (workers that
\* have reported the current round); it starts at 0, changes only by
\* increments of exactly 1 (so it never decreases), and a worker leaves the
\* barrier of round i only in a state where the counter is >= (i+1)*M.
C14_CounterCountsCompletions ==
    /\ turn = 0
    /\ [](pc # "clamp" =>
            turn = CompletedRounds * numProcesses + ReportedCurrent)
    /\ [][turn' = turn \/ turn' = turn + 1]_vars
    /\ [][\A j \in Ordinals :
            (wpc[j] = "wait2" /\ wpc'[j] # "wait2")
               => turn >= (wi[j] + 1) * numProcesses]_vars

\* three workers, two rounds completed, one worker has reported the third
C14_Witness ==
    /\ numProcesses = 3 /\ turn = 7
    /\ CompletedRounds = 2 /\ ReportedCurrent = 1
    /\ \E j \in Ordinals : wpc[j] = "wait2" /\ wi[j] = 2

\* the cells <<segment, index>> the pending pass of the loop of
\* parallelScan of worker j loads, and the one it stores
ScanReads(j) ==
    {<<wIn[j], wk[j]>>} \cup
        (IF wk[j] < Pow2(wi[j]) THEN {} ELSE {<<wIn[j], wk[j] - Pow2(wi[j])>>})
ScanWrite(j) == <<wOut[j], wk[j]>>

Scanning(j) == wpc[j] = "scan"

\* the cells of the two array segments
Cells == (1 .. 2) \X (0 .. (MaxN - 1))

\* C15: in the Scan Step of any round worker j reads only cells of the
\* current buffer and writes only next[k] with k in its own block and
\* k < N; it never writes the current buffer, never a cell of another
\* worker's block, and no cell is written by one worker while another
\* worker reads or writes it.
C15_ScanFrame ==
    /\ [](\A j \in Ordinals : Scanning(j) =>
            /\ wIn[j] # wOut[j]
            /\ \A c \in ScanReads(j) : c[1] = wIn[j] /\ c[2] \in 0 .. (arrSize - 1)
            /\ ScanWrite(j)[1] = wOut[j]
            /\ ScanWrite(j)[2] \in Processed(j, numProcesses, blockSize, arrSize)
            /\ ScanWrite(j)[2] < arrSize
            /\ \A j2 \in (0 .. (numProcesses - 1)) \ {j} :
                  /\ ScanWrite(j)[2] \notin Processed(j2, numProcesses, blockSize, arrSize)
                  /\ Scanning(j2) =>
                        /\ wi[j2] = wi[j]
                        /\ ScanWrite(j) \notin ScanReads(j2) \cup {ScanWrite(j2)})
    /\ [][\A j \in Ordinals :
            (Scanning(j) /\ wk'[j] # wk[j]) =>
               /\ mem'[wIn[j]] = mem[wIn[j]]
               /\ \A c \in Cells :
                     (c[2] < arrSize /\ mem'[c[1]][c[2]] # mem[c[1]][c[2]])
                        => c = ScanWrite(j)]_vars

\* three workers are in the loop of round 1 at once, worker 1 about to
\* read the cell next to its block
C15_Witness ==
    /\ arrSize = 4 /\ numProcesses = 3
    /\ \A j \in 0 .. 2 : Scanning(j) /\ wi[j] = 1
    /\ \E j \in 0 .. 2 : \E c \in ScanReads(j) :
          c[2] \notin Processed(j, numProcesses, blockSize, arrSize)

\* the parent of my-count has collected all M workers, has done its final
\* swap and is about to read the result, or has read it
CountParentReads ==
    /\ pc \in {"write", "remove"}
    /\ forkFailed = {} /\ ~allocFailed

\* C16, my-count: the buffer the parent reads as the result, after its
\* parity-conditional final swap, is the buffer the final round
\* R-1 = floor(log2 N) wrote into, for both parities of R.
C16_CountReadsFinalRound ==
    CountParentReads =>
        /\ wWrote[FloorLog2(arrSize)] = {outArray}
        /\ pc = "remove" => outFile = [k \in 1 .. arrSize |-> mem[outArray][k - 1]]

C16_CountWitnessOdd ==
    /\ CountParentReads /\ pc = "remove"
    /\ arrSize = 3 /\ numProcesses = 2
    /\ wWrote[1] = {outArray}

C16_CountWitnessEven ==
    /\ CountParentReads /\ pc = "remove"
    /\ arrSize = 4 /\ numProcesses = 2
    /\ wWrote[2] = {outArray}

\* the parent of prefixSum has joined the children of its last round and
\* is about to print, or has printed
PrefixParentReads ==
    /\ aPc \in {"loop", "remove"} /\ aI > aIter
    /\ aFails = 0

\* C16: in both engines, for every N >= 1, the buffer the parent reads as
\* the result after all workers have been collected is the buffer the
\* final round R-1 = floor(log2 N) wrote into.
C16_ParentReadsFinalRound ==
    /\ C16_CountReadsFinalRound
    /\ PrefixParentReads =>
          \A j \in 0 .. (reqProcesses - 1) :
             /\ aChild[<<FloorLog2(arrSize), j>>].st # "none"
             /\ aChild[<<FloorLog2(arrSize), j>>].buf = aSum

\* C17: with every spawned worker (and the parent) scheduled again and
\* again and none crashing, the barrier never blocks forever: unless a fork
\* fails, every spawned worker passes both waits of synchronize in every
\* round, completes floor(log2 N) + 1 rounds and exits, and the parent's
\* join returns so that the result is written (or the output file cannot
\* be opened).
C17_BarrierNeverBlocksForever ==
    (pc = "fork" /\ ~allocFailed)
        ~> \/ forkFailed # {}
           \/ /\ \A j \in 0 .. (numProcesses - 1) :
                    wpc[j] = "done" /\ wi[j] = FloorLog2(arrSize) + 1
              /\ outFile # <<>> \/ IoFailureExit

\* three workers have gone through the three rounds of N = 4 and the
\* result is written
C17_Witness ==
    /\ arrSize = 4 /\ numProcesses = 3
    /\ forkFailed = {} /\ ~allocFailed
    /\ \A j \in 0 .. 2 : wpc[j] = "done" /\ wi[j] = 3
    /\ outFile # <<>>

\* worker j has passed the first spin of synchronize and has not completed
\* its turn[0]++
Incrementing(j) == wpc[j] \in {"load", "store"}

\* C18: in every round i the workers increment the barrier counter in
\* ascending ordinal order, worker j only from the value i*M + j; at most
\* one worker is between passing its first wait and completing its
\* increment, so turn[0]++ is never executed by two workers at once and
\* the value a worker stores is one more than the counter holds (no
\* increment is lost).
C18_IncrementsAreSerialised ==
    /\ \A j \in Ordinals :
          Incrementing(j) => turn = wi[j] * numProcesses + j
    /\ \A j \in Ordinals : \A j2 \in Ordinals :
          (Incrementing(j) /\ Incrementing(j2)) => j = j2
    /\ \A j \in Ordinals : wpc[j] = "store" => wreg[j] = turn
    /\ \A j \in Ordinals : \A j2 \in Ordinals :
          (j < j2 /\ j2 < numProcesses /\ wpc[j2] # "none")
             => Reported(j) >= Reported(j2)

\* in round 1 of three workers, worker 2 has loaded the counter at 5 and
\* the others have incremented before it
C18_Witness ==
    /\ numProcesses = 3 /\ wpc[2] = "store" /\ wi[2] = 1
    /\ turn = 5 /\ wreg[2] = 5
    /\ wpc[0] = "wait2" /\ wpc[1] = "wait2"

\* the offsets, from memPtr, of the cells the parent of prefixSum touches
\* through its handles: the fill loop, and the print loop once reached
ParentTouches ==
    (0 .. (arrSize - 1)) \cup
        (IF aPc \in {"remove", "exited"}
         THEN {aSum + k : k \in 0 .. (arrSize - 1)} ELSE {})

\* C19: in prefixSum every cell a child or the parent reads or writes
\* through either handle lies inside the allocated region of 2*N ints: the
\* accesses through the first buffer are to offsets [0, N), those through
\* the second to [N, 2N), each a cell [0, N) of its handle, for every
\* N >= 1, M >= 1 and round.
C19_AccessesInsideRegion ==
    aPc \in {"loop", "remove", "exited"} =>
        /\ \A o \in ParentTouches : o \in 0 .. (SegmentInts(arrSize) - 1)
        /\ \A c \in PRounds \X POrdinals :
              aChild[c].st = "running" =>
                 /\ \A o \in ChildReads(c[1], c[2]) :
                       /\ o - aChild[c].sum \in 0 .. (arrSize - 1)
                       /\ o \in 0 .. (SegmentInts(arrSize) - 1)
                 /\ ChildWrites(c[1], c[2]) - aChild[c].buf \in 0 .. (arrSize - 1)
                 /\ ChildWrites(c[1], c[2]) \in 0 .. (SegmentInts(arrSize) - 1)

\* one schedule of my-count: in every round the M workers run the loop of
\* parallelScan one after the other, worker 0 first; the memory after the
\* workers j, j+1, ... of round i have run
RECURSIVE SeqWorkers(_, _, _, _, _)
SeqWorkers(m, hin, hout, i, j) ==
    LET procs == Clamp(reqProcesses, arrSize)
        bs == RoundDiv(arrSize, procs)
    IN IF j >= procs THEN m
       ELSE SeqWorkers(
               [m EXCEPT ![hout] =
                   [k \in 0 .. (arrSize - 1) |->
                       IF k \in Processed(j, procs, bs, arrSize)
                       THEN ScanValue(m[hin], k, i) ELSE @[k]]],
               hin, hout, i, j + 1)

\* the memory after the rounds i, i+1, ... of that schedule
RECURSIVE SeqRounds(_, _, _, _)
SeqRounds(m, hin, hout, i) ==
    IF i > FloorLog2(arrSize) THEN m
    ELSE SeqRounds(SeqWorkers(m, hin, hout, i, 0),
                   SwapArrays(hin, hout)[1], SwapArrays(hin, hout)[2], i + 1)

SeqMemory ==
    SeqRounds([s \in 1 .. 2 |-> IF s = 1 THEN InputArray ELSE ZeroArray(arrSize)],
              1, 2, 0)

\* what the parent writes out after that schedule
SeqOutput ==
    LET h == IF FloorLog2(arrSize) % 2 # 0 THEN SwapArrays(1, 2) ELSE <<1, 2>>
    IN [k \in 1 .. arrSize |-> SeqMemory[h[2]][k - 1]]

\* the workers of my-count are collected and the parent is at or behind the
\* write of the result, in a run without a failed shmget, shmat or fork
CountFinished ==
    /\ CountOn
    /\ pc \in {"write", "remove"} \/ (pc = "exited" /\ exitCode = 0)
    /\ forkFailed = {} /\ ~allocFailed

\* C20: for fixed N, M and input, the final contents of both shared
\* buffers and the array the parent writes out are the same for every
\* interleaving of the workers' steps: those of the schedule in which the
\* workers run one after the other in every round.
C20_ScheduleIndependent ==
    CountFinished =>
        /\ mem = SeqMemory
        /\ outFile # <<>> => outFile = SeqOutput

C20_Witness ==
    /\ CountFinished /\ pc = "remove"
    /\ arrSize = 4 /\ numProcesses = 3 /\ file = Signed(4)
    /\ mem = SeqMemory /\ outFile = SeqOutput

=============================================================================
